---- MODULE Spec2Model ----
(***************************************************************************)
(* A typed, schema-evolving table store over a key-value tree (db.rs).     *)
(* Characters are code points, strings are sequences of code points.       *)
(***************************************************************************)
EXTENDS Integers, Sequences, FiniteSets, TLC

VARIABLES tree, last, calls, issued, dbs, disk, lock, thr, opened

vars == <<calls, thr, tree, last, issued, dbs, disk, lock, opened>>

\* the variables of the server (ServerSpec): the registry, the stores, the
\* registry lock, the request threads and the names get_or_create_db has
\* been called for (ever, and in this run of the process)
server == <<dbs, disk, lock, thr, opened>>

-----------------------------------------------------------------------------
(* Universes the operations' inputs are drawn from.                        *)

\* Identifiers the random generator of add_record can draw: 1..MaxId.
MaxId == 2

\* Calls made on the database in one behaviour.
MaxCalls == 4

Ids == 1..MaxId

TableNames == {"t1", "t2"}

ColNames == {"a", "b"}

-----------------------------------------------------------------------------
(* Type and DBValue (db.rs 22-40).                                         *)

Type(tag, lo, hi) == [tag |-> tag, lo |-> lo, hi |-> hi]

TInteger == Type("Integer", 0, 0)

TChar == Type("Char", 0, 0)

TCharInvl(lo, hi) == Type("CharInvl", lo, hi)

TReal == Type("Real", 0, 0)

TStr == Type("Str", 0, 0)

TStrCI(lo, hi) == Type("StrCI", lo, hi)

\* n carries the number or the code point, s the string.
DBValue(tag, n, s) == [tag |-> tag, n |-> n, s |-> s]

VInteger(i) == DBValue("Integer", i, <<>>)

VChar(c) == DBValue("Char", c, <<>>)

VCharInvl(c) == DBValue("CharInvl", c, <<>>)

VReal(f) == DBValue("Real", f, <<>>)

\* the text "NaN"
NaNText == <<78, 97, 78>>

\* Real(f64::NAN): the one Real of this model that is no whole number; s
\* carries its text
VRealNaN == DBValue("Real", 0, NaNText)

IsNaN(v) == v.tag = "Real" /\ v.s = NaNText

VStr(s) == DBValue("Str", 0, s)

VStrCI(s) == DBValue("StrCI", 0, s)

Column(name, ctype) == [name |-> name, ctype |-> ctype]

-----------------------------------------------------------------------------
(* Sequence helpers: Vec::insert, Vec::remove, Iterator::position.         *)

Range(s) == {s[i] : i \in DOMAIN s}

\* Vec::insert(idx, x), idx counted from 0; the caller guarantees idx <= len.
VecInsert(s, idx, x) == SubSeq(s, 1, idx) \o <<x>> \o SubSeq(s, idx + 1, Len(s))

\* Vec::remove(idx), idx counted from 0; the caller guarantees idx < len.
VecRemove(s, idx) == SubSeq(s, 1, idx) \o SubSeq(s, idx + 2, Len(s))

SetMin(S) == CHOOSE x \in S : \A y \in S : x <= y

SetMax(S) == CHOOSE x \in S : \A y \in S : y <= x

\* iter().position(p): the 0-based index of the first match, -1 for None.
ColPosition(columns, name) ==
    IF \E i \in DOMAIN columns : columns[i].name = name
    THEN SetMin({i \in DOMAIN columns : columns[i].name = name}) - 1
    ELSE -1

IdPosition(records, ident) ==
    IF \E i \in DOMAIN records : records[i] = ident
    THEN SetMin({i \in DOMAIN records : records[i] = ident}) - 1
    ELSE -1

-----------------------------------------------------------------------------
(* Text conversions: to_string and str::parse.                             *)

IsDigit(c) == c >= 48 /\ c <= 57

RECURSIVE NatToString(_)
NatToString(n) ==
    IF n < 10 THEN <<48 + n>> ELSE NatToString(n \div 10) \o <<48 + (n % 10)>>

\* i64::to_string; f64::to_string of a whole number prints no fraction.
IntToString(i) == IF i < 0 THEN <<45>> \o NatToString(0 - i) ELSE NatToString(i)

RECURSIVE DigitsValue(_)
DigitsValue(s) ==
    IF Len(s) = 0 THEN 0
    ELSE 10 * DigitsValue(SubSeq(s, 1, Len(s) - 1)) + (s[Len(s)] - 48)

\* str::parse::<i64>: an optional sign, then one digit at least, digits only.
\* str::parse::<f64> accepts the same texts, the text "NaN" (ParseReal) and,
\* beyond them, only texts with '.', an exponent or "inf", which no string of
\* this model spells.
ParseOk(s) ==
    LET body == IF Len(s) > 0 /\ s[1] \in {43, 45} THEN Tail(s) ELSE s
    IN  Len(body) > 0 /\ \A i \in DOMAIN body : IsDigit(body[i])

ParseValue(s) ==
    IF s[1] = 45 THEN 0 - DigitsValue(Tail(s))
    ELSE IF s[1] = 43 THEN DigitsValue(Tail(s))
    ELSE DigitsValue(s)

-----------------------------------------------------------------------------
(* Typed value layer (db.rs 353-424).                                      *)

InRange(lo, hi, c) == lo <= c /\ c <= hi

is_subtype(self, other) ==
    IF self.tag = "StrCI" /\ self.lo = 0 /\ self.hi = 0 /\ other.tag = "StrCI"
    THEN TRUE
    ELSE IF self.tag = other.tag /\ self.tag \in {"CharInvl", "StrCI"}
    THEN InRange(other.lo, other.hi, self.lo) /\ InRange(other.lo, other.hi, self.hi)
    ELSE self.tag = other.tag

defvalue(t) ==
    CASE t.tag = "Integer" -> VInteger(0)
      [] t.tag = "Char" -> VChar(0)
      [] t.tag = "CharInvl" -> VCharInvl(t.lo)
      [] t.tag = "Real" -> VReal(0)
      [] t.tag = "Str" -> VStr(<<>>)
      [] t.tag = "StrCI" -> VStrCI(<<>>)

get_type(v) ==
    CASE v.tag = "Integer" -> TInteger
      [] v.tag = "Char" -> TChar
      [] v.tag = "CharInvl" -> TCharInvl(v.n, v.n)
      [] v.tag = "Real" -> TReal
      [] v.tag = "Str" -> TStr
      [] v.tag = "StrCI" ->
            IF Len(v.s) = 0 THEN TStrCI(0, 0)
            ELSE TStrCI(SetMin(Range(v.s)), SetMax(Range(v.s)))

None == [some |-> FALSE, v |-> VInteger(0)]

Some(v) == [some |-> TRUE, v |-> v]

ParseTo(s, mk(_)) == IF ParseOk(s) THEN Some(mk(ParseValue(s))) ELSE None

\* s.parse().ok().map(DBValue::Real): "NaN" parses to the NaN
ParseReal(s) == IF s = NaNText THEN Some(VRealNaN) ELSE ParseTo(s, VReal)

\* f64::to_string
RealToString(v) == IF IsNaN(v) THEN NaNText ELSE IntToString(v.n)

coerce(v, t) ==
    IF is_subtype(get_type(v), t) THEN Some(v)
    ELSE CASE v.tag = "Integer" /\ t.tag = "Real" -> Some(VReal(v.n))
           [] v.tag = "Integer" /\ t.tag = "Str" -> Some(VStr(IntToString(v.n)))
           \* `*f as i64`: the NaN casts to 0
           [] v.tag = "Real" /\ t.tag = "Integer" -> Some(VInteger(v.n))
           [] v.tag = "Real" /\ t.tag = "Str" -> Some(VStr(RealToString(v)))
           [] v.tag = "Char" /\ t.tag = "Str" -> Some(VStr(<<v.n>>))
           [] v.tag = "Char" /\ t.tag = "CharInvl" ->
                IF InRange(t.lo, t.hi, v.n) THEN Some(VCharInvl(v.n)) ELSE None
           [] v.tag \in {"Char", "CharInvl"} /\ t.tag = "StrCI" ->
                IF InRange(t.lo, t.hi, v.n) THEN Some(VStrCI(<<v.n>>)) ELSE None
           [] v.tag = "CharInvl" /\ t.tag = "Char" -> Some(VChar(v.n))
           [] v.tag = "CharInvl" /\ t.tag = "Str" -> Some(VStr(<<v.n>>))
           [] v.tag = "Str" /\ t.tag = "Integer" -> ParseTo(v.s, VInteger)
           [] v.tag = "Str" /\ t.tag = "Real" -> ParseReal(v.s)
           \* StrCI(s).coerce(StrCI(f, t)): the subtype test, then no arm matches.
           [] v.tag = "Str" /\ t.tag = "StrCI" ->
                IF is_subtype(get_type(VStrCI(v.s)), t) THEN Some(VStrCI(v.s)) ELSE None
           [] v.tag = "StrCI" /\ t.tag = "Integer" -> ParseTo(v.s, VInteger)
           [] v.tag = "StrCI" /\ t.tag = "Real" -> ParseReal(v.s)
           [] v.tag = "StrCI" /\ t.tag = "Str" -> Some(VStr(v.s))
           [] OTHER -> None

\* The order of the variants of DBValue, which derive(PartialOrd) compares
\* first (db.rs 32-40).
Discriminant(v) ==
    CASE v.tag = "Integer" -> 0
      [] v.tag = "Char" -> 1
      [] v.tag = "CharInvl" -> 2
      [] v.tag = "Real" -> 3
      [] v.tag = "Str" -> 4
      [] v.tag = "StrCI" -> 5

CmpInt(a, b) == IF a < b THEN "Less" ELSE IF a > b THEN "Greater" ELSE "Equal"

\* String's order: the first differing code point, then the length
RECURSIVE CmpStr(_, _)
CmpStr(a, b) ==
    IF Len(a) = 0 \/ Len(b) = 0 THEN CmpInt(Len(a), Len(b))
    ELSE IF a[1] # b[1] THEN CmpInt(a[1], b[1])
    ELSE CmpStr(Tail(a), Tail(b))

\* DBValue::partial_cmp, derived (db.rs 32): "None" when a NaN is compared
\* with a Real
partial_cmp(a, b) ==
    IF a.tag # b.tag THEN CmpInt(Discriminant(a), Discriminant(b))
    ELSE IF a.tag \in {"Str", "StrCI"} THEN CmpStr(a.s, b.s)
    ELSE IF a.tag = "Real" /\ (IsNaN(a) \/ IsNaN(b)) THEN "None"
    ELSE CmpInt(a.n, b.n)

\* match_record without its length test: zip stops at the shorter side
match_record_zip(columns, values) ==
    \A i \in DOMAIN values :
        i \in DOMAIN columns => is_subtype(get_type(values[i]), columns[i].ctype)

\* Schema::match_record (db.rs 338-346)
match_record(columns, values) ==
    IF Len(values) # Len(columns) THEN FALSE
    ELSE \A i \in DOMAIN values : is_subtype(get_type(values[i]), columns[i].ctype)

-----------------------------------------------------------------------------
(* The key-value tree (getset.rs) and the keys db.rs formats.               *)

\* "/": the catalog, the list of table names
KRoot == "/"

\* format!("/{}", name): the table's index
KIdx(name) == "/" \o name

\* format!("#{}", name): the table's schema
KSch(name) == "#" \o name

\* format!("${}", ident): a record's values
KRec(ident) == "$" \o ToString(ident)

has_key(tr, k) == k \in DOMAIN tr

set_value(tr, k, v) == [x \in DOMAIN tr \cup {k} |-> IF x = k THEN v ELSE tr[x]]

del(tr, k) == [x \in DOMAIN tr \ {k} |-> tr[x]]

-----------------------------------------------------------------------------
(* Outcomes: the new tree, Ok or a DBError or Panic, and the payload.      *)

Res(tr, res, ret) == [tree |-> tr, res |-> res, ret |-> ret]

Table(name, schema, records) == [name |-> name, schema |-> schema, records |-> records]

\* Table::update (db.rs 193-196)
update(tr, tab) ==
    set_value(set_value(tr, KIdx(tab.name), tab.records), KSch(tab.name), tab.schema)

\* DB::get_tables (db.rs 139-141); DB::new has written "/"
get_tables(tr) == tr[KRoot]

\* DB::add_table (db.rs 143-155)
add_table(tr, name, schema) ==
    IF has_key(tr, KIdx(name)) THEN Res(tr, "TableExists", <<>>)
    ELSE LET t1 == update(tr, Table(name, schema, <<>>))
         IN  Res(set_value(t1, KRoot, Append(get_tables(t1), name)), "Ok", <<>>)

NamePosition(tv, name) ==
    IF \E i \in DOMAIN tv : tv[i] = name
    THEN SetMin({i \in DOMAIN tv : tv[i] = name}) - 1
    ELSE -1

\* remove_table that deletes the index key and leaves the catalog as it was
remove_table_keeps_catalog(tr, name) ==
    IF ~has_key(tr, KIdx(name)) THEN Res(tr, "TableNotFound", <<>>)
    ELSE IF NamePosition(get_tables(tr), name) < 0 THEN Res(tr, "TableNotFound", <<>>)
    ELSE Res(del(tr, KIdx(name)), "Ok", <<>>)

\* DB::remove_table (db.rs 157-173)
remove_table(tr, name) ==
    IF ~has_key(tr, KIdx(name)) THEN Res(tr, "TableNotFound", <<>>)
    ELSE LET tv == get_tables(tr)
             idx == NamePosition(tv, name)
         IN  IF idx < 0 THEN Res(tr, "TableNotFound", <<>>)
             ELSE Res(del(set_value(tr, KRoot, VecRemove(tv, idx)), KIdx(name)), "Ok", <<>>)

\* DB::get_table (db.rs 175-179): both keys must be there
TableFound(tr, name) == has_key(tr, KIdx(name)) /\ has_key(tr, KSch(name))

get_table(tr, name) == Table(name, tr[KSch(name)], tr[KIdx(name)])

-----------------------------------------------------------------------------
(* Table operations (db.rs 199-335) on a handle loaded by get_table.       *)

Record(ident, value) == [ident |-> ident, value |-> value]

\* Table::get_records (db.rs 257-264); the unwrap panics on a missing blob
BlobsPresent(tr, tab) == \A i \in DOMAIN tab.records : has_key(tr, KRec(tab.records[i]))

get_records(tr, tab) ==
    [i \in DOMAIN tab.records |-> Record(tab.records[i], tr[KRec(tab.records[i])])]

\* The outcome of a sort: the comparator's unwrap panicked, or the vector
Sorted(v) == [panic |-> FALSE, v |-> v]

SortPanic == [panic |-> TRUE, v |-> <<>>]

\* slice::sort_by on a short slice inserts each element, from the last to the
\* first, into the sorted part behind it: x goes forward while the element
\* after it is less, compare(e, x) = Less, compare being
\* a.value[idx].partial_cmp(&b.value[idx]).unwrap() (db.rs 253)
RECURSIVE InsertHead(_, _, _)
InsertHead(x, rest, idx) ==
    IF Len(rest) = 0 THEN Sorted(<<x>>)
    ELSE IF idx >= Len(rest[1].value) \/ idx >= Len(x.value) THEN SortPanic
    ELSE LET c == partial_cmp(rest[1].value[idx + 1], x.value[idx + 1])
         IN  IF c = "None" THEN SortPanic
             ELSE IF c = "Less"
             THEN LET r == InsertHead(x, Tail(rest), idx)
                  IN  IF r.panic THEN r ELSE Sorted(<<rest[1]>> \o r.v)
             ELSE Sorted(<<x>> \o rest)

RECURSIVE SortBy(_, _)
SortBy(recs, idx) ==
    IF Len(recs) < 2 THEN Sorted(recs)
    ELSE LET t == SortBy(Tail(recs), idx)
         IN  IF t.panic THEN t ELSE InsertHead(Head(recs), t.v, idx)

\* Table::sort_records (db.rs 250-255)
sort_records(tr, tab, key) ==
    LET idx == ColPosition(tab.schema, key)
    IN  IF idx < 0 THEN Res(tr, "InvalidColumn", <<>>)
        ELSE IF ~BlobsPresent(tr, tab) THEN Res(tr, "Panic", <<>>)
        ELSE LET r == SortBy(get_records(tr, tab), idx)
             IN  IF r.panic THEN Res(tr, "Panic", <<>>) ELSE Res(tr, "Ok", r.v)

\* add_record that puts the new identifier first in the index
add_record_front(tr, tab, value, k) ==
    IF ~match_record(tab.schema, value) THEN Res(tr, "TypeMismatch", 0)
    ELSE LET t1 == set_value(tr, KRec(k), value)
         IN  Res(update(t1, Table(tab.name, tab.schema, <<k>> \o tab.records)), "Ok", k)

\* Table::add_record (db.rs 208-220); k is the identifier the generator draws
\* last, the first one that is no key of the tree
add_record(tr, tab, value, k) ==
    IF ~match_record(tab.schema, value) THEN Res(tr, "TypeMismatch", 0)
    ELSE LET t1 == set_value(tr, KRec(k), value)
         IN  Res(update(t1, Table(tab.name, tab.schema, Append(tab.records, k))), "Ok", k)

\* upd_record that does not look the identifier up in the table's index
upd_record_any_table(tr, tab, ident, value) ==
    IF ~has_key(tr, KRec(ident)) THEN Res(tr, "RecordNotFound", <<>>)
    ELSE IF ~match_record(tab.schema, value) THEN Res(tr, "TypeMismatch", <<>>)
    ELSE Res(set_value(tr, KRec(ident), value), "Ok", <<>>)

\* upd_record that persists the index with the updated identifier last
upd_record_reindex(tr, tab, ident, value) ==
    IF IdPosition(tab.records, ident) < 0 THEN Res(tr, "RecordNotFound", <<>>)
    ELSE IF ~match_record(tab.schema, value) THEN Res(tr, "TypeMismatch", <<>>)
    ELSE LET moved == Append(SelectSeq(tab.records, LAMBDA x : x # ident), ident)
         IN  Res(update(set_value(tr, KRec(ident), value),
                        Table(tab.name, tab.schema, moved)), "Ok", <<>>)

\* Table::upd_record (db.rs 222-229)
upd_record(tr, tab, ident, value) ==
    IF IdPosition(tab.records, ident) < 0 THEN Res(tr, "RecordNotFound", <<>>)
    ELSE IF ~match_record(tab.schema, value) THEN Res(tr, "TypeMismatch", <<>>)
    ELSE Res(set_value(tr, KRec(ident), value), "Ok", <<>>)

\* del_record that deletes the blob and does not persist the shorter index
del_record_keeps_index(tr, tab, ident) ==
    IF IdPosition(tab.records, ident) < 0 THEN Res(tr, "RecordNotFound", <<>>)
    ELSE Res(del(tr, KRec(ident)), "Ok", <<>>)

\* Table::del_record (db.rs 231-238)
del_record(tr, tab, ident) ==
    LET idx == IdPosition(tab.records, ident)
    IN  IF idx < 0 THEN Res(tr, "RecordNotFound", <<>>)
        ELSE LET t1 == update(tr, Table(tab.name, tab.schema, VecRemove(tab.records, idx)))
             IN  Res(del(t1, KRec(ident)), "Ok", <<>>)

\* del_record_by_idx that counts the position from 1
del_record_by_idx_from_one(tr, tab, idx) ==
    IF idx >= Len(tab.records) \/ idx < 1 THEN Res(tr, "RecordNotFound", <<>>)
    ELSE del_record(tr, tab, tab.records[idx])

\* Table::del_record_by_idx (db.rs 240-243)
del_record_by_idx(tr, tab, idx) ==
    IF idx >= Len(tab.records) THEN Res(tr, "RecordNotFound", <<>>)
    ELSE del_record(tr, tab, tab.records[idx + 1])

\* Table::upd_record_by_idx (db.rs 245-248)
upd_record_by_idx(tr, tab, idx, value) ==
    IF idx >= Len(tab.records) THEN Res(tr, "RecordNotFound", <<>>)
    ELSE upd_record(tr, tab, tab.records[idx + 1], value)

\* The loop `for Record {ident, value} in recs { ...; set_value("$ident", value) }`
\* over a snapshot recs: the first n records are written, each with newval[i].
WriteValues(tr, recs, newval, n) ==
    LET keys == {KRec(recs[i].ident) : i \in 1..n}
    IN  [x \in DOMAIN tr \cup keys |->
            IF x \in keys
            THEN newval[SetMax({i \in 1..n : KRec(recs[i].ident) = x})]
            ELSE tr[x]]

\* A column rewrite: the loop stops with a panic at the first record whose
\* Vec::insert or Vec::remove is out of range, the earlier writes done; after
\* the loop update() writes the index and the new schema.
Rewrite(tr, tab, schema, bad(_), new(_)) ==
    IF ~BlobsPresent(tr, tab) THEN Res(tr, "Panic", <<>>)
    ELSE LET recs == get_records(tr, tab)
             newval == [i \in DOMAIN recs |-> IF bad(recs[i].value) THEN <<>> ELSE new(recs[i].value)]
             stop == {i \in DOMAIN recs : bad(recs[i].value)}
         IN  IF stop # {}
             THEN Res(WriteValues(tr, recs, newval, SetMin(stop) - 1), "Panic", <<>>)
             ELSE Res(update(WriteValues(tr, recs, newval, Len(recs)),
                             Table(tab.name, schema, tab.records)), "Ok", <<>>)

\* Option<usize>: None
NoIdx == -1

\* add_column that puts the column and the defaults at the end, whatever idx
add_column_at_end(tr, tab, column, optidx) ==
    LET cur_idx == ColPosition(tab.schema, column.name)
        idx == IF optidx = NoIdx THEN Len(tab.schema) ELSE optidx
        val == defvalue(column.ctype)
    IN  IF cur_idx >= 0 THEN Res(tr, "ColumnExists", <<>>)
        ELSE IF idx > Len(tab.schema) THEN Res(tr, "InvalidPosition", <<>>)
        ELSE Rewrite(tr, tab, Append(tab.schema, column),
                     LAMBDA value : idx > Len(value),
                     LAMBDA value : Append(value, val))

\* Table::add_column (db.rs 266-283)
add_column(tr, tab, column, optidx) ==
    LET cur_idx == ColPosition(tab.schema, column.name)
        idx == IF optidx = NoIdx THEN Len(tab.schema) ELSE optidx
        val == defvalue(column.ctype)
    IN  IF cur_idx >= 0 THEN Res(tr, "ColumnExists", <<>>)
        ELSE IF idx > Len(tab.schema) THEN Res(tr, "InvalidPosition", <<>>)
        ELSE Rewrite(tr, tab, VecInsert(tab.schema, idx, column),
                     LAMBDA value : idx > Len(value),
                     LAMBDA value : VecInsert(value, idx, val))

\* del_column that drops every record's last value, not the column's
del_column_pop(tr, tab, column) ==
    LET idx == ColPosition(tab.schema, column)
    IN  IF idx < 0 THEN Res(tr, "InvalidColumn", <<>>)
        ELSE Rewrite(tr, tab, VecRemove(tab.schema, idx),
                     LAMBDA value : idx >= Len(value),
                     LAMBDA value : VecRemove(value, Len(value) - 1))

\* Table::del_column (db.rs 285-294)
del_column(tr, tab, column) ==
    LET idx == ColPosition(tab.schema, column)
    IN  IF idx < 0 THEN Res(tr, "InvalidColumn", <<>>)
        ELSE Rewrite(tr, tab, VecRemove(tab.schema, idx),
                     LAMBDA value : idx >= Len(value),
                     LAMBDA value : VecRemove(value, idx))

\* Table::move_column (db.rs 296-310): columns.remove(old_idx) leaves len - 1
\* columns, so columns.insert(idx, c) panics for idx = len, before any write
move_column(tr, tab, column, idx) ==
    LET old_idx == ColPosition(tab.schema, column)
    IN  IF old_idx < 0 THEN Res(tr, "InvalidColumn", <<>>)
        ELSE IF idx > Len(tab.schema) THEN Res(tr, "InvalidPosition", <<>>)
        ELSE IF idx > Len(tab.schema) - 1 THEN Res(tr, "Panic", <<>>)
        ELSE Rewrite(tr, tab,
                     VecInsert(VecRemove(tab.schema, old_idx), idx, tab.schema[old_idx + 1]),
                     LAMBDA value : old_idx >= Len(value) \/ idx > Len(value) - 1,
                     LAMBDA value : VecInsert(VecRemove(value, old_idx), idx, value[old_idx + 1]))

\* upd_column that does not look for another column of the new name
upd_column_any_name(tr, tab, old, new) ==
    LET idx == ColPosition(tab.schema, old)
    IN  IF idx < 0 THEN Res(tr, "InvalidColumn", <<>>)
        ELSE IF ~BlobsPresent(tr, tab) THEN Res(tr, "Panic", <<>>)
        ELSE LET recs == get_records(tr, tab)
                 short == {i \in DOMAIN recs : idx >= Len(recs[i].value)}
                 fails == {i \in DOMAIN recs \ short : ~coerce(recs[i].value[idx + 1], new.ctype).some}
                 stop == short \cup fails
                 newrs == [i \in DOMAIN recs |->
                             IF i \in stop THEN <<>>
                             ELSE VecInsert(VecRemove(recs[i].value, idx), idx,
                                            coerce(recs[i].value[idx + 1], new.ctype).v)]
             IN  IF stop # {}
                 THEN Res(tr, IF SetMin(stop) \in short THEN "Panic" ELSE "TypeMismatch", <<>>)
                 ELSE Res(update(WriteValues(tr, recs, newrs, Len(recs)),
                                 Table(tab.name,
                                       VecInsert(VecRemove(tab.schema, idx), idx, new),
                                       tab.records)), "Ok", <<>>)

\* upd_column that writes each record as soon as it is coerced: a value that
\* does not coerce stops it with the earlier records already rewritten
upd_column_eager(tr, tab, old, new) ==
    LET idx == ColPosition(tab.schema, old)
        nidx == ColPosition(tab.schema, new.name)
    IN  IF idx < 0 THEN Res(tr, "InvalidColumn", <<>>)
        ELSE IF nidx >= 0 /\ new.name # old THEN Res(tr, "ColumnExists", <<>>)
        ELSE IF ~BlobsPresent(tr, tab) THEN Res(tr, "Panic", <<>>)
        ELSE LET recs == get_records(tr, tab)
                 stop == {i \in DOMAIN recs :
                             \/ idx >= Len(recs[i].value)
                             \/ ~coerce(recs[i].value[idx + 1], new.ctype).some}
                 newrs == [i \in DOMAIN recs |->
                             IF i \in stop THEN <<>>
                             ELSE VecInsert(VecRemove(recs[i].value, idx), idx,
                                            coerce(recs[i].value[idx + 1], new.ctype).v)]
             IN  IF stop # {}
                 THEN Res(WriteValues(tr, recs, newrs, SetMin(stop) - 1), "TypeMismatch", <<>>)
                 ELSE Res(update(WriteValues(tr, recs, newrs, Len(recs)),
                                 Table(tab.name,
                                       VecInsert(VecRemove(tab.schema, idx), idx, new),
                                       tab.records)), "Ok", <<>>)

\* Table::upd_column (db.rs 312-334): every new record is computed, with `?`
\* on the first value that does not coerce, before the first set_value
upd_column(tr, tab, old, new) ==
    LET idx == ColPosition(tab.schema, old)
        nidx == ColPosition(tab.schema, new.name)
    IN  IF idx < 0 THEN Res(tr, "InvalidColumn", <<>>)
        ELSE IF nidx >= 0 /\ new.name # old THEN Res(tr, "ColumnExists", <<>>)
        ELSE IF ~BlobsPresent(tr, tab) THEN Res(tr, "Panic", <<>>)
        ELSE LET recs == get_records(tr, tab)
                 short == {i \in DOMAIN recs : idx >= Len(recs[i].value)}
                 fails == {i \in DOMAIN recs \ short : ~coerce(recs[i].value[idx + 1], new.ctype).some}
                 stop == short \cup fails
                 newrs == [i \in DOMAIN recs |->
                             IF i \in stop THEN <<>>
                             ELSE VecInsert(VecRemove(recs[i].value, idx), idx,
                                            coerce(recs[i].value[idx + 1], new.ctype).v)]
             IN  IF stop # {}
                 THEN Res(tr, IF SetMin(stop) \in short THEN "Panic" ELSE "TypeMismatch", <<>>)
                 ELSE Res(update(WriteValues(tr, recs, newrs, Len(recs)),
                                 Table(tab.name,
                                       VecInsert(VecRemove(tab.schema, idx), idx, new),
                                       tab.records)), "Ok", <<>>)

-----------------------------------------------------------------------------
(* Inputs of the operations.                                               *)

\* the intervals are of 'a' and 'z'; CharInvl('z', 'a') is empty
InTypes == {TInteger, TReal, TStr, TCharInvl(97, 122), TCharInvl(122, 97), TStrCI(97, 122)}

InColumns == {Column(n, t) : n \in ColNames, t \in InTypes}

InSchemas == {<<Column("a", TStr)>>}

\* [], [1], ["x"], ["1"], ["x", 1]
InRecords == {<<>>, <<VInteger(1)>>, <<VStr(<<120>>)>>, <<VStr(<<49>>)>>,
              <<VStr(<<120>>), VInteger(1)>>}

\* positions and column indexes a request can carry
InIdx == 0..2

-----------------------------------------------------------------------------
(* The state machine: tree is the database's key-value tree, last the last *)
(* completed call with its outcome, calls the number of completed calls,   *)
(* issued the identifiers add_record has returned so far. Spec and         *)
(* SortSpec call one database's operations one after the other and leave   *)
(* the server's variables as they start.                                   *)

Call(op, r) == [op |-> op, res |-> r.res, ret |-> r.ret]

\* Mutex::new(BTreeMap::new()) (db.rs 104-106): nobody holds it, no panic yet
LockNew == [holder |-> 0, poisoned |-> FALSE]

\* no store on disk
NoDisk == [d \in {} |-> <<>>]

\* no request thread
NoThreads == [t \in {} |-> <<>>]

\* get_or_create_db has not been called
NoneOpened == [ever |-> {}, run |-> {}]

\* DB::new (db.rs 124-134) on a fresh tree
Init ==
    /\ tree = [k \in {KRoot} |-> <<>>]
    /\ last = Call("new", Res(tree, "Ok", <<>>))
    /\ calls = 0
    /\ issued = {}
    /\ dbs = {}
    /\ disk = NoDisk
    /\ lock = LockNew
    /\ thr = NoThreads
    /\ opened = NoneOpened

Done(op, r) ==
    /\ tree' = r.tree
    /\ last' = Call(op, r)
    /\ calls' = calls + 1
    /\ issued' = IF op = "add_record" /\ r.res = "Ok" THEN issued \cup {r.ret} ELSE issued
    /\ UNCHANGED server

\* db.get_table(&name)? in front of every table request (routes.rs 106-199)
OnTable(name, op(_)) ==
    IF TableFound(tree, name) THEN op(get_table(tree, name))
    ELSE Res(tree, "TableNotFound", <<>>)

AddTable ==
    /\ calls < MaxCalls
    /\ \E name \in TableNames, schema \in InSchemas :
           Done("add_table", add_table(tree, name, schema))

RemoveTable ==
    /\ calls < MaxCalls
    /\ \E name \in TableNames :
           Done("remove_table", remove_table(tree, name))

GetRecords ==
    /\ calls < MaxCalls
    /\ \E name \in TableNames :
           Done("get_records",
                OnTable(name, LAMBDA tab :
                    IF BlobsPresent(tree, tab) THEN Res(tree, "Ok", get_records(tree, tab))
                    ELSE Res(tree, "Panic", <<>>)))

\* a call that gets past validation draws identifiers until one, k, is no key
AddRecord ==
    /\ calls < MaxCalls
    /\ \E name \in TableNames, value \in InRecords, k \in Ids :
           LET r == OnTable(name, LAMBDA tab : add_record(tree, tab, value, k))
           IN  /\ r.res = "Ok" => ~has_key(tree, KRec(k))
               /\ Done("add_record", r)

UpdRecord ==
    /\ calls < MaxCalls
    /\ \E name \in TableNames, ident \in Ids, value \in InRecords :
           Done("upd_record",
                OnTable(name, LAMBDA tab : upd_record(tree, tab, ident, value)))

UpdRecordByIdx ==
    /\ calls < MaxCalls
    /\ \E name \in TableNames, idx \in InIdx, value \in InRecords :
           Done("upd_record_by_idx",
                OnTable(name, LAMBDA tab : upd_record_by_idx(tree, tab, idx, value)))

DelRecord ==
    /\ calls < MaxCalls
    /\ \E name \in TableNames, ident \in Ids :
           Done("del_record",
                OnTable(name, LAMBDA tab : del_record(tree, tab, ident)))

DelRecordByIdx ==
    /\ calls < MaxCalls
    /\ \E name \in TableNames, idx \in InIdx :
           Done("del_record_by_idx",
                OnTable(name, LAMBDA tab : del_record_by_idx(tree, tab, idx)))

AddColumn ==
    /\ calls < MaxCalls
    /\ \E name \in TableNames, column \in InColumns, idx \in InIdx \cup {NoIdx} :
           Done("add_column",
                OnTable(name, LAMBDA tab : add_column(tree, tab, column, idx)))

DelColumn ==
    /\ calls < MaxCalls
    /\ \E name \in TableNames, column \in ColNames :
           Done("del_column",
                OnTable(name, LAMBDA tab : del_column(tree, tab, column)))

MoveColumn ==
    /\ calls < MaxCalls
    /\ \E name \in TableNames, column \in ColNames, idx \in InIdx :
           Done("move_column",
                OnTable(name, LAMBDA tab : move_column(tree, tab, column, idx)))

UpdColumn ==
    /\ calls < MaxCalls
    /\ \E name \in TableNames, old \in ColNames, new \in InColumns :
           Done("upd_column",
                OnTable(name, LAMBDA tab : upd_column(tree, tab, old, new)))

Next ==
    \/ AddTable
    \/ RemoveTable
    \/ GetRecords
    \/ AddRecord
    \/ UpdRecord
    \/ UpdRecordByIdx
    \/ DelRecord
    \/ DelRecordByIdx
    \/ AddColumn
    \/ DelColumn
    \/ MoveColumn
    \/ UpdColumn

Spec == Init /\ [][Next]_vars

-----------------------------------------------------------------------------
(* Sorting: one table with a column "a" that holds texts, retyped by       *)
(* upd_column and read back by sort_records.                               *)

\* Calls made on the database in one behaviour of SortSpec.
MaxSortCalls == 5

\* ["9"], ["10"], ["NaN"]
SortValues == {<<VStr(<<57>>)>>, <<VStr(<<49, 48>>)>>, <<VStr(NaNText)>>}

SortTypes == {TStr, TInteger, TReal}

SortAddTable ==
    /\ calls < MaxSortCalls
    /\ \E schema \in InSchemas : Done("add_table", add_table(tree, "t1", schema))

SortAddRecord ==
    /\ calls < MaxSortCalls
    /\ \E value \in SortValues, k \in Ids :
           LET r == OnTable("t1", LAMBDA tab : add_record(tree, tab, value, k))
           IN  /\ r.res = "Ok" => ~has_key(tree, KRec(k))
               /\ Done("add_record", r)

SortUpdColumn ==
    /\ calls < MaxSortCalls
    /\ \E t \in SortTypes :
           Done("upd_column",
                OnTable("t1", LAMBDA tab : upd_column(tree, tab, "a", Column("a", t))))

\* routes.rs 140-146
SortRecords ==
    /\ calls < MaxSortCalls
    /\ \E column \in ColNames :
           Done("sort_records",
                OnTable("t1", LAMBDA tab : sort_records(tree, tab, column)))

SortNext ==
    \/ SortAddTable
    \/ SortAddRecord
    \/ SortUpdColumn
    \/ SortRecords

SortSpec == Init /\ [][SortNext]_vars

-----------------------------------------------------------------------------
(* The server (routes.rs): request threads take the registry lock, resolve *)
(* the database and the table, run one operation, whose keys they write    *)
(* one by one, and drop the lock when the handler returns or panics. A     *)
(* process stop loses the registry and the threads and keeps the stores.   *)

\* Requests issued and process stops in one behaviour of ServerSpec.
MaxServerCalls == 4

Threads == {1, 2}

DbNames == {"d1", "d2"}

\* set_value(k, v), one write of the store
Write(k, v) == [k |-> k, v |-> v]

\* the store after the first n of the writes
ApplyWrites(tr, writes, n) ==
    LET keys == {writes[i].k : i \in 1..n}
    IN  [x \in DOMAIN tr \cup keys |->
            IF x \in keys THEN writes[SetMax({i \in 1..n : writes[i].k = x})].v ELSE tr[x]]

\* Table::update (db.rs 193-196): the index key, then the schema key
update_writes(tab) ==
    <<Write(KIdx(tab.name), tab.records), Write(KSch(tab.name), tab.schema)>>

\* DB::add_table (db.rs 148-153): update(), then the catalog
add_table_writes(tr, name, schema) ==
    IF has_key(tr, KIdx(name)) THEN <<>>
    ELSE update_writes(Table(name, schema, <<>>))
             \o <<Write(KRoot, Append(get_tables(tr), name))>>

\* Table::add_record (db.rs 216-218): the blob, then update()
add_record_writes(tr, tab, value, k) ==
    IF ~match_record(tab.schema, value) THEN <<>>
    ELSE <<Write(KRec(k), value)>>
             \o update_writes(Table(tab.name, tab.schema, Append(tab.records, k)))

\* a column mutation that writes the index and the schema before the blobs
column_writes_schema_first(tab, r) ==
    IF r.res # "Ok" THEN <<>>
    ELSE update_writes(get_table(r.tree, tab.name))
             \o [i \in DOMAIN tab.records |->
                    Write(KRec(tab.records[i]), r.tree[KRec(tab.records[i])])]

\* The writes of add_column, del_column, move_column and upd_column
\* (db.rs 277-281, 288-292, 303-308, 327-332) whose outcome is r: the loop
\* writes every record's blob, in index order, then update() writes the index
\* and the schema; on the stores these requests reach, a call that fails or
\* panics does so before the loop.
column_writes(tab, r) ==
    IF r.res # "Ok" THEN <<>>
    ELSE [i \in DOMAIN tab.records |->
             Write(KRec(tab.records[i]), r.tree[KRec(tab.records[i])])]
             \o update_writes(get_table(r.tree, tab.name))

\* What a handler does under the lock: the store db it writes ("" for
\* none), its writes in order, its response and the store as the whole
\* operation leaves it.
Plan(db, writes, r) ==
    [db |-> db, writes |-> writes, res |-> r.res, ret |-> r.ret, tree |-> r.tree]

Req(op, id, col, idx, ty) == [op |-> op, id |-> id, col |-> col, idx |-> idx, ty |-> ty]

NoReq == Req("", "", "", 0, TStr)

\* the table and the record of the server's requests: "t1", ["x"]
ServerTable == "t1"

ServerValue == <<VStr(<<120>>)>>

\* The requests: every database request on d1 and d2, the table requests on
\* table t1 of d1.
ServerReqs ==
    {Req("getdbs", "", "", 0, TStr)}
    \cup {Req(op, id, "", 0, TStr) : op \in {"opendb", "gettables"}, id \in DbNames}
    \cup {Req(op, "d1", "a", 0, TStr) : op \in {"addtable", "getrecords", "addrecord"}}
    \cup {Req("addcolumn", "d1", "b", idx, TInteger) : idx \in {0, NoIdx}}
    \cup {Req("delcolumn", "d1", "b", 0, TStr)}
    \cup {Req("movecolumn", "d1", "a", idx, TStr) : idx \in {0, 1}}
    \cup {Req("updcolumn", "d1", "a", 0, ty) : ty \in {TInteger, TStrCI(97, 122)}}

\* db.get_table(&name)? and the table operation (routes.rs 106-199) on the
\* store tr of the database
TableHandler(req, tr, k) ==
    IF ~TableFound(tr, ServerTable) THEN Plan("", <<>>, Res(tr, "TableNotFound", <<>>))
    ELSE LET tab == get_table(tr, ServerTable)
             col == Column(req.col, req.ty)
             col_op == CASE req.op = "addcolumn" -> add_column(tr, tab, col, req.idx)
                         [] req.op = "delcolumn" -> del_column(tr, tab, req.col)
                         [] req.op = "movecolumn" -> move_column(tr, tab, req.col, req.idx)
                         [] req.op = "updcolumn" -> upd_column(tr, tab, req.col, col)
                         [] OTHER -> Res(tr, "Ok", <<>>)
         IN  CASE req.op = "getrecords" ->
                    IF BlobsPresent(tr, tab)
                    THEN Plan("", <<>>, Res(tr, "Ok", get_records(tr, tab)))
                    ELSE Plan("", <<>>, Res(tr, "Panic", <<>>))
               [] req.op = "addrecord" ->
                    Plan(req.id, add_record_writes(tr, tab, ServerValue, k),
                         add_record(tr, tab, ServerValue, k))
               [] OTHER -> Plan(req.id, column_writes(tab, col_op), col_op)

\* The handler of req (routes.rs 34-199) with the registry reg and the stores
\* dk; k is the identifier add_record draws.
Handler(req, reg, dk, k) ==
    CASE req.op = "getdbs" -> Plan("", <<>>, Res(<<>>, "Ok", reg))
      \* get_or_create_db (db.rs 112-117): DB::new writes "/" if it is not there
      [] req.op = "opendb" ->
            IF req.id \in reg \/ has_key(dk[req.id], KRoot)
            THEN Plan("", <<>>, Res(<<>>, "Ok", req.id))
            ELSE Plan(req.id, <<Write(KRoot, <<>>)>>,
                      Res(set_value(dk[req.id], KRoot, <<>>), "Ok", req.id))
      \* get_db (db.rs 119-121)
      [] req.id \notin reg -> Plan("", <<>>, Res(<<>>, "DatabaseNotFound", <<>>))
      [] req.op = "gettables" ->
            IF has_key(dk[req.id], KRoot)
            THEN Plan("", <<>>, Res(<<>>, "Ok", get_tables(dk[req.id])))
            ELSE Plan("", <<>>, Res(<<>>, "TableNotFound", <<>>))
      [] req.op = "addtable" ->
            Plan(req.id,
                 add_table_writes(dk[req.id], ServerTable, <<Column(req.col, req.ty)>>),
                 add_table(dk[req.id], ServerTable, <<Column(req.col, req.ty)>>))
      [] OTHER -> TableHandler(req, dk[req.id], k)

\* a thread: idle, waiting for the lock with its request, or running its
\* handler with n of its writes done; base is the store of the request's
\* database as the handler found it
Idle ==
    [pc |-> "idle", req |-> NoReq, plan |-> Plan("", <<>>, Res(<<>>, "", <<>>)),
     n |-> 0, base |-> <<>>]

Waiting(req) == [Idle EXCEPT !.pc = "wait", !.req = req]

Running(req, plan, base) ==
    [pc |-> "run", req |-> req, plan |-> plan, n |-> 0, base |-> base]

\* get_or_create_db (db.rs 112-117): the registry after the call
get_or_create_db(reg, name) == reg \cup {name}

\* a lock that is given to every thread that asks
try_lock_unguarded(l) == TRUE

\* Mutex::lock (DATABASES.lock(), routes.rs 41-195) blocks while a guard is held
try_lock(l) == l.holder = 0

\* Tree::start_default(&name) (db.rs 125) makes the store if there is none
start_default(dk, name) ==
    [d \in DOMAIN dk \cup {name} |-> IF d \in DOMAIN dk THEN dk[d] ELSE <<>>]

\* the store of a process run earlier: table t1 [a: Str] of d1 with the
\* record 1, ["x"]
StoredTree ==
    LET t0 == [k \in {KRoot} |-> <<>>]
        t1 == add_table(t0, ServerTable, <<Column("a", TStr)>>).tree
    IN  add_record(t1, get_table(t1, ServerTable), ServerValue, 1).tree

\* the stores the process finds when it starts: none, or those of an
\* earlier run
InDisks == {NoDisk, [d \in {"d1"} |-> StoredTree]}

ServerInit ==
    /\ tree = [k \in {KRoot} |-> <<>>]
    /\ last = Call("new", Res(tree, "Ok", <<>>))
    /\ calls = 0
    /\ issued = {}
    /\ dbs = {}
    /\ disk \in InDisks
    /\ lock = LockNew
    /\ thr = [t \in Threads |-> Idle]
    /\ opened = NoneOpened

\* a request arrives at a thread
Issue(t) ==
    /\ calls < MaxServerCalls
    /\ thr[t].pc = "idle"
    /\ \E req \in ServerReqs : thr' = [thr EXCEPT ![t] = Waiting(req)]
    /\ calls' = calls + 1
    /\ UNCHANGED <<tree, last, issued, dbs, disk, lock, opened>>

\* DATABASES.lock().unwrap(): on a poisoned lock the unwrap panics and the
\* request fails; otherwise the handler reads what it needs
Lock(t) ==
    /\ thr[t].pc = "wait"
    /\ try_lock(lock)
    /\ IF lock.poisoned
       THEN /\ last' = [op |-> thr[t].req.op, res |-> "Poisoned", ret |-> <<>>]
            /\ thr' = [thr EXCEPT ![t] = Idle]
            /\ UNCHANGED <<dbs, disk, lock>>
       ELSE \E k \in Ids :
                LET req == thr[t].req
                    disk1 == IF req.op = "opendb" /\ req.id \notin dbs
                             THEN start_default(disk, req.id) ELSE disk
                    plan == Handler(req, dbs, disk1, k)
                IN  /\ IF req.op = "addrecord"
                       THEN plan.res = "Ok" => ~has_key(disk1[req.id], KRec(k))
                       ELSE k = 1
                    /\ lock' = [lock EXCEPT !.holder = t]
                    /\ disk' = disk1
                    /\ thr' = [thr EXCEPT ![t] =
                                  Running(req, plan,
                                          IF req.id \in DOMAIN disk1
                                          THEN disk1[req.id] ELSE <<>>)]
                    /\ UNCHANGED <<dbs, last>>
    /\ UNCHANGED <<tree, calls, issued, opened>>

\* one set_value of the handler
WriteKey(t) ==
    /\ thr[t].pc = "run"
    /\ thr[t].n < Len(thr[t].plan.writes)
    /\ disk' = [disk EXCEPT ![thr[t].plan.db] =
                   ApplyWrites(@, <<thr[t].plan.writes[thr[t].n + 1]>>, 1)]
    /\ thr' = [thr EXCEPT ![t].n = @ + 1]
    /\ UNCHANGED <<tree, last, calls, issued, dbs, lock, opened>>

\* the handler returns, or unwinds from a panic, and drops the guard: a
\* panic poisons the lock; get_or_create_db has put the database in the
\* registry
Finish(t) ==
    /\ thr[t].pc = "run"
    /\ thr[t].n = Len(thr[t].plan.writes)
    /\ lock' = [holder |-> 0, poisoned |-> lock.poisoned \/ thr[t].plan.res = "Panic"]
    /\ dbs' = IF thr[t].req.op = "opendb" THEN get_or_create_db(dbs, thr[t].req.id) ELSE dbs
    /\ opened' = IF thr[t].req.op = "opendb"
                 THEN [ever |-> opened.ever \cup {thr[t].req.id},
                       run |-> opened.run \cup {thr[t].req.id}]
                 ELSE opened
    /\ last' = Call(thr[t].req.op, thr[t].plan)
    /\ thr' = [thr EXCEPT ![t] = Idle]
    /\ UNCHANGED <<tree, calls, issued, disk>>

\* the process stops and starts again: the stores stay
Restart ==
    /\ calls < MaxServerCalls
    /\ calls' = calls + 1
    /\ dbs' = {}
    /\ lock' = LockNew
    /\ thr' = [t \in Threads |-> Idle]
    /\ last' = Call("restart", Res(<<>>, "Ok", <<>>))
    /\ opened' = [opened EXCEPT !.run = {}]
    /\ UNCHANGED <<tree, issued, disk>>

ServerNext ==
    \/ \E t \in Threads : Issue(t)
    \/ \E t \in Threads : Lock(t)
    \/ \E t \in Threads : WriteKey(t)
    \/ \E t \in Threads : Finish(t)
    \/ Restart

ServerSpec == ServerInit /\ [][ServerNext]_vars

-----------------------------------------------------------------------------
(* The subtype test on its own: is_subtype applied to two types.           *)

\* '\0', 'a', 'm', 'z'
TypeChars == {0, 97, 109, 122}

AllTypes ==
    {TInteger, TChar, TReal, TStr}
    \cup {TCharInvl(lo, hi) : lo \in TypeChars, hi \in TypeChars}
    \cup {TStrCI(lo, hi) : lo \in TypeChars, hi \in TypeChars}

IsSubtype ==
    \E self \in AllTypes, other \in AllTypes :
        /\ last.op = "new"
        /\ last' = [op |-> "is_subtype", res |-> "Ok",
                    ret |-> [self |-> self, other |-> other,
                             sub |-> is_subtype(self, other)]]
        /\ UNCHANGED <<tree, calls, issued, server>>

TypeNext == IsSubtype

TypeSpec == Init /\ [][TypeNext]_vars

-----------------------------------------------------------------------------
(* Readings of the persisted state used by the properties.                 *)

Tables(tr) == {name \in TableNames : TableFound(tr, name)}

Schema(tr, name) == tr[KSch(name)]

Index(tr, name) == tr[KIdx(name)]

Blob(tr, ident) == tr[KRec(ident)]

Count(seq, x) == Cardinality({i \in DOMAIN seq : seq[i] = x})

ColumnOps == {"add_column", "del_column", "move_column", "upd_column"}

ColumnErrors == {"ColumnExists", "InvalidPosition", "InvalidColumn", "TypeMismatch"}

\* Only a call that returns Ok changes the tree, so every tree the database
\* reaches is the tree of a state whose last call returned Ok. A property of
\* the tree alone that holds in those states holds in all.
OnlyOkWrites == tree' # tree => last'.res = "Ok"

-----------------------------------------------------------------------------
\* C1: a column mutation (add_column, del_column, move_column, upd_column)
\* that returns ColumnExists, InvalidPosition, InvalidColumn or TypeMismatch
\* leaves every key of the tree as it was: schema, index and record blobs.
C1_FailedColumnOpWritesNothing ==
    [][(last'.op \in ColumnOps /\ last'.res \in ColumnErrors) => tree' = tree]_vars

\* upd_column has just failed with TypeMismatch on a table whose first record
\* coerces to the new type and whose second record does not.
C1_Witness ==
    /\ last.op = "upd_column"
    /\ last.res = "TypeMismatch"
    /\ \E name \in Tables(tree), old \in ColNames, new \in InColumns :
           LET tab == get_table(tree, name)
               idx == ColPosition(tab.schema, old)
           IN  /\ idx >= 0
               /\ Len(tab.records) = 2
               /\ coerce(Blob(tree, tab.records[1])[idx + 1], new.ctype).some
               /\ ~coerce(Blob(tree, tab.records[2])[idx + 1], new.ctype).some
               /\ upd_column(tree, tab, old, new).res = "TypeMismatch"

\* C2: a successful remove_table(name) leaves neither the index key /name,
\* nor the schema key #name, nor a blob $id of an identifier of the table's
\* index, and the name is gone from the catalog under "/".
C2_RemoveTableDeletesAll ==
    [][\A name \in TableNames :
          (/\ last'.op = "remove_table"
           /\ last'.res = "Ok"
           /\ remove_table(tree, name).res = "Ok"
           /\ tree' = remove_table(tree, name).tree)
          => /\ ~has_key(tree', KIdx(name))
             /\ ~has_key(tree', KSch(name))
             /\ \A i \in DOMAIN Index(tree, name) : ~has_key(tree', KRec(Index(tree, name)[i]))
             /\ Count(get_tables(tree'), name) = 0]_vars

\* C3: every stored record of every table validates against the table's
\* schema: as many values as columns, each value's natural type a subtype of
\* its column's type.
C3_RecordsValidate ==
    \A name \in Tables(tree) :
        \A i \in DOMAIN Index(tree, name) :
            LET ident == Index(tree, name)[i]
            IN  has_key(tree, KRec(ident)) =>
                    /\ Len(Blob(tree, ident)) = Len(Schema(tree, name))
                    /\ \A c \in DOMAIN Blob(tree, ident) :
                           c \in DOMAIN Schema(tree, name) =>
                               is_subtype(get_type(Blob(tree, ident)[c]),
                                          Schema(tree, name)[c].ctype)

\* C4: no identifier is twice in an index, none is in the indexes of two
\* tables, every identifier of an index has its blob, and list_records never
\* meets a missing blob.
C4_IndexSound ==
    /\ \A name \in Tables(tree) :
           /\ \A i, j \in DOMAIN Index(tree, name) :
                  Index(tree, name)[i] = Index(tree, name)[j] => i = j
           /\ \A i \in DOMAIN Index(tree, name) : has_key(tree, KRec(Index(tree, name)[i]))
    /\ \A n1, n2 \in Tables(tree) :
           n1 # n2 => Range(Index(tree, n1)) \cap Range(Index(tree, n2)) = {}
    /\ last.op = "get_records" => last.res # "Panic"

\* two tables hold a record each, the second one just added
C4_Witness ==
    /\ Tables(tree) = TableNames
    /\ \A name \in TableNames : Len(Index(tree, name)) = 1
    /\ last.op = "add_record"
    /\ last.res = "Ok"

\* C5 (state): the catalog lists a name exactly once iff /name and #name are
\* both persisted, which is when get_table finds the table; add_table on
\* such a name fails with TableExists.
C5_CatalogMatchesKeys ==
    \A name \in TableNames :
        /\ Count(get_tables(tree), name) = 1
               <=> (has_key(tree, KIdx(name)) /\ has_key(tree, KSch(name)))
        /\ TableFound(tree, name) <=> Count(get_tables(tree), name) = 1
        /\ TableFound(tree, name) =>
               \A schema \in InSchemas : add_table(tree, name, schema).res = "TableExists"

\* C5 (step): after a successful remove_table(name) get_table(name) fails,
\* only a successful add_table makes a missing table found again, and a
\* failing add_table or remove_table leaves the tree unchanged.
C5_CatalogStep ==
    /\ \A name \in TableNames :
           /\ (/\ last'.op = "remove_table"
               /\ last'.res = "Ok"
               /\ remove_table(tree, name).res = "Ok"
               /\ tree' = remove_table(tree, name).tree) => ~TableFound(tree', name)
           /\ (~TableFound(tree, name) /\ TableFound(tree', name)) =>
                  (last'.op = "add_table" /\ last'.res = "Ok")
    /\ (last'.op \in {"add_table", "remove_table"} /\ last'.res # "Ok") => tree' = tree

\* C5: in every state reached by add_table and remove_table calls among the
\* others, list_tables has a name exactly once iff both its keys are
\* persisted, get_table succeeds exactly for those names, a removed table
\* stays TableNotFound until add_table succeeds, and add_table on a present
\* name fails with TableExists and changes nothing.
C5_Catalog == []C5_CatalogMatchesKeys /\ [][C5_CatalogStep]_vars

\* a table was removed and created again beside another one
C5_Witness ==
    /\ last.op = "add_table"
    /\ last.res = "Ok"
    /\ \E name \in TableNames :
           /\ has_key(tree, KSch(name))
           /\ ~has_key(tree, KIdx(name))
    /\ Tables(tree) # {}

\* C6: add_record never returns an identifier that an earlier add_record
\* returned, deleted in the meantime or not.
C6_NeverReused ==
    [][(last'.op = "add_record" /\ last'.res = "Ok") => last'.ret \notin issued]_vars

\* the claim's validate: same length and positional subtype match
Validates(columns, values) ==
    /\ Len(values) = Len(columns)
    /\ \A i \in 1..Len(values) :
           i <= Len(columns) => is_subtype(get_type(values[i]), columns[i].ctype)

\* C7, for the current tree: add_record(values), and upd_record(id, values)
\* on an identifier of the index, succeed iff the values validate against the
\* schema; otherwise they return TypeMismatch and write nothing.
C7_Gate ==
    \A name \in Tables(tree), value \in InRecords :
        LET tab == get_table(tree, name)
            ok == Validates(tab.schema, value)
        IN  /\ \A k \in Ids :
                   (ok => ~has_key(tree, KRec(k))) =>
                       LET r == add_record(tree, tab, value, k)
                       IN  /\ r.res = "Ok" <=> ok
                           /\ ~ok => (r.res = "TypeMismatch" /\ r.tree = tree)
            /\ \A ident \in Range(tab.records) :
                   LET r == upd_record(tree, tab, ident, value)
                   IN  /\ r.res = "Ok" <=> ok
                       /\ ~ok => (r.res = "TypeMismatch" /\ r.tree = tree)

\* C7: in every tree the database reaches, add_record and upd_record on an
\* existing identifier succeed iff validate(schema, values) holds, and return
\* TypeMismatch and write nothing when it does not.
C7_ValidateGatesWrites == [](last.res = "Ok" => C7_Gate) /\ [][OnlyOkWrites]_vars

\* upd_record has just refused values for a record of a two-column table
C7_Witness ==
    /\ last.op = "upd_record"
    /\ last.res = "TypeMismatch"
    /\ \E name \in Tables(tree) :
           /\ Len(Schema(tree, name)) = 2
           /\ Len(Index(tree, name)) > 0

\* C8, for the current tree: the records listed after a successful
\* add_record(values) that returns k are the records listed before, then
\* Record(k, values).
C8_Appends ==
    \A name \in Tables(tree), value \in InRecords, k \in Ids :
        LET tab == get_table(tree, name)
            r == add_record(tree, tab, value, k)
        IN  (~has_key(tree, KRec(k)) /\ BlobsPresent(tree, tab) /\ r.res = "Ok") =>
                /\ r.ret = k
                /\ TableFound(r.tree, name)
                /\ BlobsPresent(r.tree, get_table(r.tree, name))
                /\ get_records(r.tree, get_table(r.tree, name))
                       = Append(get_records(tree, tab), Record(k, value))

\* C8: a successful add_record(values) returns k such that list_records then
\* returns the previous records, unchanged and in order, followed by one
\* record with identifier k and the values given.
C8_AddRecordAppends == [](last.res = "Ok" => C8_Appends) /\ [][OnlyOkWrites]_vars

\* add_record has just appended a second record, listed last
C8_Witness ==
    /\ last.op = "add_record"
    /\ last.res = "Ok"
    /\ \E name \in Tables(tree) :
           /\ Len(Index(tree, name)) = 2
           /\ Index(tree, name)[2] = last.ret

\* C9, for the current tree: add_column(column, p) succeeds for a name not in
\* the schema and a position up to the column count (or none given), and
\* del_column(column.name) after a successful add_column gives back the tree
\* as it was.
C9_Restores ==
    \A name \in Tables(tree), column \in InColumns, p \in InIdx \cup {NoIdx} :
        LET tab == get_table(tree, name)
            r1 == add_column(tree, tab, column, p)
        IN  /\ (ColPosition(tab.schema, column.name) < 0 /\ p <= Len(tab.schema))
                   => r1.res = "Ok"
            /\ r1.res = "Ok" =>
                   LET r2 == del_column(r1.tree, get_table(r1.tree, name), column.name)
                   IN  r2.res = "Ok" /\ r2.tree = tree

\* C9: add_column(column, p), for a name not in the schema and p up to the
\* column count, followed by del_column(column.name), gives back the schema
\* and every record's values as they were before the add.
C9_AddThenDelRestores == [](last.res = "Ok" => C9_Restores) /\ [][OnlyOkWrites]_vars

\* add_column has just put a column in front of another in a table that
\* holds a record; del_column of that column succeeds
C9_Witness ==
    /\ last.op = "add_column"
    /\ last.res = "Ok"
    /\ \E name \in Tables(tree) :
           /\ Len(Schema(tree, name)) = 2
           /\ Len(Index(tree, name)) > 0
           /\ Schema(tree, name)[2] = Column("a", TStr)
           /\ del_column(tree, get_table(tree, name), Schema(tree, name)[1].name).res = "Ok"

\* C11: sort_records never panics: on a Real column that holds a NaN (the
\* text "NaN" retyped by upd_column) it returns the records, the NaN last, or
\* an error.
C11_SortNeverPanics ==
    last.op = "sort_records" => last.res \in {"Ok", "InvalidColumn", "TableNotFound"}

\* C12: whatever requests were issued before it, a request completes with a
\* success payload or a typed error: none fails because an earlier request
\* panicked while it held the registry lock.
C12_NoRequestFailsOnLock == last.res # "Poisoned"

\* the characters of the interval lo..=hi of self are all in that of other
Contained(self, other) ==
    \A c \in self.lo..self.hi : InRange(other.lo, other.hi, c)

\* C13: is_subtype(t, t) is true for every type t, intervals with any two
\* bounds included; for two intervals of one kind, the first with lo <= hi, it
\* is true exactly when the first is contained in the second, or is the
\* wildcard StrCI('\0', '\0'); for two types of different kinds it is false.
C13_IsSubtype ==
    last.op = "is_subtype" =>
        LET self == last.ret.self
            other == last.ret.other
        IN  /\ self = other => last.ret.sub
            /\ (/\ self.tag = other.tag
                /\ self.tag \in {"CharInvl", "StrCI"}
                /\ self.lo <= self.hi) =>
                   (last.ret.sub <=>
                        \/ Contained(self, other)
                        \/ (self.tag = "StrCI" /\ self.lo = 0 /\ self.hi = 0))
            /\ self.tag # other.tag => ~last.ret.sub

ColumnReqs == {"addcolumn", "delcolumn", "movecolumn", "updcolumn"}

\* C14 (state): one thread at most runs a handler, the one that holds the
\* lock; the store it writes is the store it loaded with its own writes so
\* far and nothing else, and its writes together give what the whole
\* operation gives on the store it loaded.
C14_OneAtATime ==
    /\ \A t, u \in Threads : (thr[t].pc = "run" /\ thr[u].pc = "run") => t = u
    /\ \A t \in Threads :
           thr[t].pc = "run" =>
               /\ lock.holder = t
               /\ thr[t].plan.db # "" =>
                      /\ disk[thr[t].plan.db]
                             = ApplyWrites(thr[t].base, thr[t].plan.writes, thr[t].n)
                      /\ ApplyWrites(thr[t].base, thr[t].plan.writes,
                                     Len(thr[t].plan.writes)) = thr[t].plan.tree

\* C14 (step): a handler loads its database and table only when no other
\* handler is between its load and its last write, and a store changes only
\* by a write of the running handler.
C14_LoadsAlone ==
    /\ \A t \in Threads :
           (thr[t].pc = "wait" /\ thr'[t].pc = "run") =>
               \A u \in Threads : thr[u].pc # "run"
    /\ \A d \in DOMAIN disk :
           (d \in DOMAIN disk' /\ disk'[d] # disk[d]) =>
               \E t \in Threads :
                   /\ thr[t].pc = "run"
                   /\ thr[t].plan.db = d
                   /\ thr'[t].n = thr[t].n + 1

\* C14: every request of the server holds the registry lock from its load of
\* the table handle to its last key write, so whatever the interleaving the
\* requests run one after the other: the stores go through the states of a
\* serial order and no request reads a table that a column mutation has
\* partly rewritten.
C14_Serialized == []C14_OneAtATime /\ [][C14_LoadsAlone]_vars

\* a column mutation has rewritten a record and not yet the schema while a
\* request on the same table waits for the lock
C14_Witness ==
    \E t, u \in Threads :
        /\ thr[t].pc = "run"
        /\ thr[t].req.op \in ColumnReqs
        /\ thr[t].n > 0
        /\ thr[t].n < Len(thr[t].plan.writes)
        /\ thr[u].pc = "wait"
        /\ thr[u].req.op = "getrecords"

\* What C15 says of a request that completes, called being the names
\* get_or_create (opendb) counts as called for: get(name) (gettables) fails
\* with DatabaseNotFound iff the name is not among them, list() (getdbs)
\* returns them, and get_or_create leaves a store that has a catalog as it is
\* and writes an empty catalog to one that has none.
RegistryAnswers(t, called) ==
    (thr[t].pc = "run" /\ thr'[t].pc = "idle" /\ last'.op = thr[t].req.op) =>
        LET req == thr[t].req
        IN  /\ req.op = "gettables" =>
                   (last'.res = "DatabaseNotFound" <=> req.id \notin called)
            /\ req.op = "getdbs" => last'.ret = called
            /\ req.op = "opendb" =>
                   /\ last'.res = "Ok"
                   /\ disk'[req.id] = IF has_key(thr[t].base, KRoot) THEN thr[t].base
                                      ELSE set_value(thr[t].base, KRoot, <<>>)

\* C15: get(name) fails with DatabaseNotFound iff get_or_create(name) was
\* never called for the name, list() returns exactly the names get_or_create
\* was called for, and get_or_create on a name that exists, in the registry
\* or as a store with a catalog, leaves its catalog and tables unchanged and
\* writes an empty catalog only when none is stored.
C15_Registry == [][\A t \in Threads : RegistryAnswers(t, opened.ever)]_vars

\* What the registry does keep: the same of the names get_or_create was
\* called for since the process started.
RegistryOfRun == [][\A t \in Threads : RegistryAnswers(t, opened.run)]_vars

\* C16, for the current tree: after a successful add_column(column, p) the
\* column is at index p of the schema (at the end for no p), the schema
\* without it is the old schema, the index is the same, and every record's
\* values are its old values with default(column.type) inserted at that
\* index: CharInvl('a') for a CharInvl('a', 'z') column.
C16_Inserted ==
    \A name \in Tables(tree), column \in InColumns, p \in InIdx \cup {NoIdx} :
        LET tab == get_table(tree, name)
            r == add_column(tree, tab, column, p)
            at == IF p = NoIdx THEN Len(tab.schema) ELSE p
        IN  r.res = "Ok" =>
                /\ TableFound(r.tree, name)
                /\ Len(Schema(r.tree, name)) = Len(tab.schema) + 1
                /\ Schema(r.tree, name)[at + 1] = column
                /\ VecRemove(Schema(r.tree, name), at) = tab.schema
                /\ Index(r.tree, name) = tab.records
                /\ \A i \in DOMAIN tab.records :
                       LET old == Blob(tree, tab.records[i])
                           new == Blob(r.tree, tab.records[i])
                       IN  /\ Len(new) = Len(old) + 1
                           /\ new[at + 1] = defvalue(column.ctype)
                           /\ column.ctype = TCharInvl(97, 122) => new[at + 1] = VCharInvl(97)
                           /\ VecRemove(new, at) = old

\* C16: a successful add_column(column, position) inserts the column at
\* index position of the schema (at the end when position is omitted), keeps
\* the other columns in their order and inserts default(column.type) at the
\* same index of every existing record's values.
C16_AddColumnInserts == [](last.res = "Ok" => C16_Inserted) /\ [][OnlyOkWrites]_vars

\* add_column has just put a CharInvl('a', 'z') column in front of column a:
\* the record holds CharInvl('a') in front of its old value
C16_Witness ==
    /\ last.op = "add_column"
    /\ last.res = "Ok"
    /\ \E name \in Tables(tree) :
           /\ Schema(tree, name) = <<Column("b", TCharInvl(97, 122)), Column("a", TStr)>>
           /\ \E i \in DOMAIN Index(tree, name) :
                  Blob(tree, Index(tree, name)[i]) = <<VCharInvl(97), VStr(<<120>>)>>

\* What C17 says of the outcome r of deleting ident from table tab of the
\* current tree: the index without ident, in order, no blob of ident, and
\* every other key of the tree as it was.
Deleted(tab, ident, r) ==
    /\ r.res = "Ok"
    /\ Index(r.tree, tab.name) = SelectSeq(tab.records, LAMBDA x : x # ident)
    /\ Len(Index(r.tree, tab.name)) = Len(tab.records) - 1
    /\ ~has_key(r.tree, KRec(ident))
    /\ DOMAIN r.tree = DOMAIN tree \ {KRec(ident)}
    /\ \A k \in DOMAIN r.tree : k # KIdx(tab.name) => r.tree[k] = tree[k]

\* C17, for the current tree: del_record(id) of an identifier that is not in
\* the index and del_record_by_idx(pos) of a position that is not below the
\* index length return RecordNotFound and change nothing; the others delete
\* that identifier and nothing else.
C17_Deletes ==
    \A name \in Tables(tree) :
        LET tab == get_table(tree, name)
        IN  /\ \A ident \in Ids :
                   LET r == del_record(tree, tab, ident)
                   IN  IF ident \in Range(tab.records) THEN Deleted(tab, ident, r)
                       ELSE r.res = "RecordNotFound" /\ r.tree = tree
            /\ \A pos \in InIdx :
                   LET r == del_record_by_idx(tree, tab, pos)
                   IN  IF pos < Len(tab.records) THEN Deleted(tab, tab.records[pos + 1], r)
                       ELSE r.res = "RecordNotFound" /\ r.tree = tree

\* C17: del_record(id) and del_record_by_idx(pos) return RecordNotFound and
\* change nothing for an identifier not in the index or a position not less
\* than its length; otherwise they remove exactly that identifier from the
\* index, the others keeping their order, delete its blob and leave every
\* other blob and the schema unchanged.
C17_DelRecord == [](last.res = "Ok" => C17_Deletes) /\ [][OnlyOkWrites]_vars

\* del_record_by_idx has just deleted one of the two records of a table
C17_Witness ==
    /\ last.op = "del_record_by_idx"
    /\ last.res = "Ok"
    /\ \E name \in Tables(tree) :
           /\ Len(Index(tree, name)) = 1
           /\ has_key(tree, KRec(Index(tree, name)[1]))
           /\ \E k \in issued : ~has_key(tree, KRec(k))

\* position of ident in the index, from 1
IndexPos(records, ident) == SetMin({i \in DOMAIN records : records[i] = ident})

\* out is the records of tab, each once, ascending in the column at idx
\* (from 0), records of equal value in their index order
SortedBy(tab, out, idx) ==
    /\ Len(out) = Len(tab.records)
    /\ {out[i].ident : i \in DOMAIN out} = Range(tab.records)
    /\ \A i \in DOMAIN out : out[i].value = Blob(tree, out[i].ident)
    /\ \A i, j \in DOMAIN out :
           i < j =>
               LET c == partial_cmp(out[i].value[idx + 1], out[j].value[idx + 1])
               IN  \/ c = "Less"
                   \/ /\ c = "Equal"
                      /\ IndexPos(tab.records, out[i].ident) < IndexPos(tab.records, out[j].ident)

\* C18: after a sort_records request, for the table as it stands (the
\* request left it as it was): sort_records(column) returns InvalidColumn
\* when no column has that name; otherwise it returns the records of
\* list_records, each exactly once, in ascending order of the named column's
\* value, records of equal value in index order, and the persisted index is
\* unchanged.
C18_SortRecords ==
    last.op = "sort_records" =>
        \A name \in Tables(tree), column \in ColNames :
            LET tab == get_table(tree, name)
                r == sort_records(tree, tab, column)
                idx == ColPosition(tab.schema, column)
            IN  /\ r.tree = tree
                /\ IF idx < 0 THEN r.res = "InvalidColumn"
                   ELSE r.res = "Ok" /\ SortedBy(tab, r.ret, idx)

\* the operations C19 says keep the index
IndexKeepers ==
    {"upd_record", "upd_record_by_idx", "add_column", "del_column", "move_column",
     "upd_column"}

\* a step of one of them leaves every table's index key as it was
C19_IndexKept ==
    last'.op \in IndexKeepers =>
        \A name \in TableNames :
            /\ has_key(tree', KIdx(name)) = has_key(tree, KIdx(name))
            /\ has_key(tree, KIdx(name)) => Index(tree', name) = Index(tree, name)

\* upd_record of the current tree: RecordNotFound for an identifier that is
\* not in the index, whatever the values; no key but the identifier's blob
\* changes; a second update with the same values changes nothing
C19_UpdRecord ==
    \A name \in Tables(tree), value \in InRecords :
        LET tab == get_table(tree, name)
        IN  /\ \A ident \in Ids :
                   LET r == upd_record(tree, tab, ident, value)
                       again == upd_record(r.tree, get_table(r.tree, name), ident, value)
                   IN  /\ ident \notin Range(tab.records) => r.res = "RecordNotFound"
                       /\ r.res # "Ok" => r.tree = tree
                       /\ DOMAIN r.tree = DOMAIN tree
                       /\ \A k \in DOMAIN tree : k # KRec(ident) => r.tree[k] = tree[k]
                       /\ r.res = "Ok" => Blob(r.tree, ident) = value
                       /\ again.res = r.res /\ again.tree = r.tree
            /\ \A pos \in InIdx :
                   LET r == upd_record_by_idx(tree, tab, pos, value)
                   IN  IF pos >= Len(tab.records)
                       THEN r.res = "RecordNotFound" /\ r.tree = tree
                       ELSE r = upd_record(tree, tab, tab.records[pos + 1], value)

\* C19: upd_record, upd_record_by_idx, add_column, del_column, move_column
\* and upd_column leave the table's index unchanged, the same identifiers in
\* the same order; upd_record changes only the blob of the addressed
\* identifier, so repeating it with the same values leaves the state
\* unchanged; upd_record on an identifier not in the index, and
\* upd_record_by_idx on a position past the end, return RecordNotFound
\* whatever the values are.
C19_IndexUnchanged ==
    /\ [](last.res = "Ok" => C19_UpdRecord)
    /\ [][C19_IndexKept]_vars
    /\ [][OnlyOkWrites]_vars

\* upd_record has just replaced the values of the first of two records
C19_Witness ==
    /\ last.op = "upd_record"
    /\ last.res = "Ok"
    /\ \E name \in Tables(tree) :
           /\ Len(Index(tree, name)) = 2
           /\ Blob(tree, Index(tree, name)[1]) = <<VStr(<<49>>)>>
           /\ Blob(tree, Index(tree, name)[2]) = <<VStr(<<120>>)>>

\* The store of a thread that runs a successful column mutation holds the
\* first n of its writes on the store it found: the record blobs in index
\* order, then the index key, the schema key last, so that the persisted
\* schema is the old one until every write is done.
C20_RecordsFirst ==
    \A t \in Threads :
        (thr[t].pc = "run" /\ thr[t].req.op \in ColumnReqs /\ thr[t].plan.res = "Ok") =>
            LET p == thr[t].plan
                tab == get_table(thr[t].base, ServerTable)
                len == Len(tab.records)
            IN  /\ disk[p.db] = ApplyWrites(thr[t].base, p.writes, thr[t].n)
                /\ Len(p.writes) = len + 2
                /\ \A i \in 1..len : p.writes[i].k = KRec(tab.records[i])
                /\ p.writes[len + 1].k = KIdx(ServerTable)
                /\ p.writes[len + 2].k = KSch(ServerTable)
                /\ thr[t].n < len + 2 => Schema(disk[p.db], ServerTable) = tab.schema
                /\ ApplyWrites(thr[t].base, p.writes, len + 2) = p.tree

\* a process stop, whatever the threads were doing, leaves the stores as
\* they are: nothing is rolled back or completed
C20_StopKeepsStore ==
    (last'.op = "restart" /\ calls' = calls + 1 /\ \A t \in Threads : thr'[t] = Idle)
        => disk' = disk

\* C20: column mutations are not atomic across keys: add_column, del_column,
\* move_column and upd_column write the record blobs one key at a time and
\* the schema key after them, and a process stop between two writes keeps
\* what was written, so the persisted table can be left with some blobs
\* rewritten and others not, and with blobs that no longer match the
\* persisted schema.
C20_NotAtomic == []C20_RecordsFirst /\ [][C20_StopKeepsStore]_vars

\* the process has stopped in add_column after the first of two blobs: the
\* first record has two values, the second one, and the schema one column
C20_Witness ==
    /\ last.op = "restart"
    /\ \A t \in Threads : thr[t] = Idle
    /\ "d1" \in DOMAIN disk
    /\ TableFound(disk["d1"], ServerTable)
    /\ LET d == disk["d1"]
           index == Index(d, ServerTable)
       IN  /\ Len(index) = 2
           /\ Len(Schema(d, ServerTable)) = 1
           /\ Len(Blob(d, index[1])) = 2
           /\ Len(Blob(d, index[2])) = 1

\* C21: column names stay unique: a table is created by add_table with a
\* schema of pairwise distinct column names, and after any sequence of
\* add_column, del_column, move_column and upd_column calls, successful or
\* failing, no two columns of its schema have the same name.
C21_ColumnNamesUnique ==
    \A name \in Tables(tree) :
        \A i, j \in DOMAIN Schema(tree, name) :
            Schema(tree, name)[i].name = Schema(tree, name)[j].name => i = j

\* upd_column has just refused to give a column the name of the other one
C21_Witness ==
    /\ last.op = "upd_column"
    /\ last.res = "ColumnExists"
    /\ \E name \in Tables(tree) :
           /\ Len(Schema(tree, name)) = 2
           /\ Schema(tree, name)[1].name # Schema(tree, name)[2].name

\* table B of the current tree is in tree t2 as it is now: its schema, its
\* index and the blob of every identifier of its index
Untouched(B, t2) ==
    /\ TableFound(t2, B)
    /\ Schema(t2, B) = Schema(tree, B)
    /\ Index(t2, B) = Index(tree, B)
    /\ \A i \in DOMAIN Index(tree, B) :
           LET k == KRec(Index(tree, B)[i])
           IN  /\ has_key(t2, k) = has_key(tree, k)
               /\ has_key(tree, k) => t2[k] = tree[k]

\* The operations that name a record by its identifier, and del_column, on
\* table tab of the current tree, whatever their arguments and outcomes,
\* leave table B untouched.
ByIdentLeave(tab, B) ==
    /\ \A ident \in Ids, value \in InRecords :
           Untouched(B, upd_record(tree, tab, ident, value).tree)
    /\ \A ident \in Ids : Untouched(B, del_record(tree, tab, ident).tree)
    /\ \A column \in ColNames : Untouched(B, del_column(tree, tab, column).tree)

\* So do add_record, the operations by position and the column operations
\* that take a position or a new column.
OthersLeave(tab, B) ==
    /\ \A value \in InRecords, k \in Ids :
           ~has_key(tree, KRec(k)) => Untouched(B, add_record(tree, tab, value, k).tree)
    /\ \A idx \in InIdx, value \in InRecords :
           Untouched(B, upd_record_by_idx(tree, tab, idx, value).tree)
    /\ \A idx \in InIdx : Untouched(B, del_record_by_idx(tree, tab, idx).tree)
    /\ \A column \in InColumns, idx \in InIdx \cup {NoIdx} :
           Untouched(B, add_column(tree, tab, column, idx).tree)
    /\ \A column \in ColNames, idx \in InIdx :
           Untouched(B, move_column(tree, tab, column, idx).tree)
    /\ \A old \in ColNames, new \in InColumns :
           Untouched(B, upd_column(tree, tab, old, new).tree)

\* C22, for the current tree: every record or column operation on a table A,
\* and remove_table(A) followed by add_table(A), leaves every other table B
\* untouched, and the table made again under the name A has an empty index.
\* upd_record, del_record, del_column, remove_table and add_table are
\* applied to every tree, the other operations to the trees from which the
\* specification still makes a call.
C22_Frame ==
    \A A \in Tables(tree) :
        /\ \A B \in Tables(tree) \ {A} :
               /\ ByIdentLeave(get_table(tree, A), B)
               /\ calls < MaxCalls => OthersLeave(get_table(tree, A), B)
        /\ LET r1 == remove_table(tree, A)
           IN  /\ r1.res = "Ok"
               /\ \A schema \in InSchemas :
                      LET r2 == add_table(r1.tree, A, schema)
                      IN  /\ r2.res = "Ok"
                          /\ Index(r2.tree, A) = <<>>
                          /\ get_records(r2.tree, get_table(r2.tree, A)) = <<>>
                          /\ \A B \in Tables(tree) \ {A} :
                                 Untouched(B, r1.tree) /\ Untouched(B, r2.tree)

\* C22: tables of one database are isolated although record blobs share one
\* `$<identifier>` key space: any record or column operation on table A,
\* and remove_table(A) followed by add_table(A), leaves the schema, the
\* index and every record blob of every other table B unchanged, and a table
\* re-created under a removed name starts with an empty index.
C22_TablesIsolated == [](last.res = "Ok" => C22_Frame) /\ [][OnlyOkWrites]_vars

\* add_column has just added a column to one table while the other table
\* holds a record of one value
C22_Witness ==
    /\ last.op = "add_column"
    /\ last.res = "Ok"
    /\ Tables(tree) = TableNames
    /\ \E A \in TableNames, B \in TableNames :
           /\ Len(Schema(tree, A)) = 2
           /\ Len(Schema(tree, B)) = 1
           /\ Len(Index(tree, B)) = 1
           /\ Len(Blob(tree, Index(tree, B)[1])) = 1

\* the other columns, in order
Others(columns, name) == SelectSeq(columns, LAMBDA c : c.name # name)

\* C10: move_column(name, p) on an existing column succeeds for every p up to
\* the column count, the column ends at index p, the other columns keep their
\* order and every record's value moves the same way; for p above the column
\* count it returns InvalidPosition, for an absent name InvalidColumn.
C10_MoveColumnPositions ==
    [][last'.op = "move_column" =>
        \A name \in Tables(tree), column \in ColNames, p \in InIdx :
            LET tab == get_table(tree, name)
                old == ColPosition(tab.schema, column)
                r == move_column(tree, tab, column, p)
            IN  (tree' = r.tree /\ last'.res = r.res) =>
                    /\ old < 0 => r.res = "InvalidColumn"
                    /\ (old >= 0 /\ p > Len(tab.schema)) => r.res = "InvalidPosition"
                    /\ (old >= 0 /\ p <= Len(tab.schema)) =>
                           /\ r.res = "Ok"
                           /\ Len(Schema(tree', name)) = Len(tab.schema)
                           /\ Schema(tree', name)[p + 1] = tab.schema[old + 1]
                           /\ Others(Schema(tree', name), column) = Others(tab.schema, column)
                           /\ \A i \in DOMAIN tab.records :
                                  LET before == Blob(tree, tab.records[i])
                                      after == Blob(tree', tab.records[i])
                                  IN  /\ after[p + 1] = before[old + 1]
                                      /\ VecRemove(after, p) = VecRemove(before, old)]_vars

====
